---- MODULE Spec2Model ----
(***************************************************************************)
(* Insight pipeline of the Scraps AI Report Generator.                     *)
(*                                                                         *)
(* Python values are encoded uniformly so that TLC can compare them:       *)
(*   - a response text is a sequence of tokens (see Tokens);               *)
(*   - a JSON / dict value is a record [t, items, s] (see VNull .. VObj);  *)
(*   - a dict is a total function over AllKeys, VAbsent marking a key the  *)
(*     dict does not hold;                                                 *)
(*   - what a call hands to its caller is a record [kind, d, exc] with     *)
(*     kind "none" (None), "dict", "list" (a non-empty JSON array) or      *)
(*     "raise" (an exception leaving the call).                            *)
(***************************************************************************)
EXTENDS Integers, Sequences, FiniteSets, TLC

VARIABLES
    available,   \* OllamaAIAnalyzer.available, set by the probe at construction
    pc,          \* "idle" | "waiting" (generation request in flight) | "done"
    domain,      \* which analysis the current run is
    records,     \* the event records of the run (their category labels)
    volume,      \* production_data['NrBoards']
    ext,         \* behaviour of the external collaborators during the run
    known,       \* whether production_data holds the key 'NrBoards'
    statistics,  \* the statistics the run computed ahead of the request
    requests,    \* generation requests POSTed during the run
    reply,       \* what the endpoint did with the request
    logged,      \* the failure message the Insight Client logged, "" if none
    callret,     \* what _call_ai / _call_ollama returned
    insight,     \* what the Insight Client returned to the analysis
    report,      \* the report model assembled by the run
    result,      \* what the run returned to its caller
    clock,       \* datetime.now(), in seconds
    assembled,   \* the report data assembled so far from the same inputs
    config,      \* the attributes the clients were constructed with
    prompt,      \* the ranking entries embedded in the prompt of the run
    connected,   \* whether the database connection of the app is open
    calls        \* the number of the current call on the instances

vars == <<available, pc, domain, records, volume, ext, known, statistics,
          requests, reply, logged, callret, insight, report, result, clock,
          assembled, config, prompt, connected, calls>>

-----------------------------------------------------------------------------
(* Bounds of the model *)

MaxRecords == 3

MaxCalls == 2

-----------------------------------------------------------------------------
(* Response texts as token sequences *)

WS == {"sp", "nl"}

\* "key" tokens stand for one complete  "key": value  member of a JSON object
\* ("root_causes_null" holds null, "recommendations_urgent" a recommendation
\* whose priority is "Urgent")
KeyTokens == {"executive_summary", "root_causes", "root_causes_null",
              "recommendations", "recommendations_urgent",
              "kaizen_project_proposal", "priority_actions", "extra"}

\* "txt" is prose without braces or backticks, "fence" is ```, "arr" is a
\* complete non-empty JSON array, "lb" / "rb" are { and }
Tokens == WS \cup KeyTokens \cup {"txt", "fence", "arr", "lb", "rb"}

AllKeys == {"executive_summary", "root_causes", "recommendations",
            "kaizen_project_proposal", "priority_actions",
            "process_improvements", "preventive_measures", "training_needs",
            "equipment_checks", "technical_insights", "metadata",
            "analysis_type", "error", "extra"}

VAbsent == [t |-> "absent", items |-> <<>>, s |-> ""]
VNull == [t |-> "null", items |-> <<>>, s |-> ""]
VStr(x) == [t |-> "str", items |-> <<>>, s |-> x]
VList(xs) == [t |-> "list", items |-> xs, s |-> ""]
VObj(xs, x) == [t |-> "obj", items |-> xs, s |-> x]

EmptyDict == [k \in AllKeys |-> VAbsent]

HasKey(d, k) == d[k].t # "absent"

KeysOf(d) == {k \in AllKeys : HasKey(d, k)}

\* the member a key token stands for
TokKey(tok) ==
    CASE tok = "root_causes_null" -> "root_causes"
      [] tok = "recommendations_urgent" -> "recommendations"
      [] OTHER -> tok

TokVal(tok) ==
    CASE tok = "executive_summary" -> VStr("summary")
      [] tok = "root_causes" -> VList(<<"cause">>)
      [] tok = "root_causes_null" -> VNull
      [] tok = "recommendations" -> VList(<<"High">>)
      [] tok = "recommendations_urgent" -> VList(<<"Urgent">>)
      [] tok = "kaizen_project_proposal" -> VNull
      [] tok = "priority_actions" -> VList(<<"high">>)
      [] OTHER -> VStr("x")

PyNone == [kind |-> "none", d |-> EmptyDict, exc |-> ""]
PyDict(dd) == [kind |-> "dict", d |-> dd, exc |-> ""]
PyList == [kind |-> "list", d |-> EmptyDict, exc |-> ""]
PyRaise(e) == [kind |-> "raise", d |-> EmptyDict, exc |-> e]

\* Python truthiness of a returned value (if ai_response: / if not response:)
Truthy(v) == \/ v.kind = "list"
             \/ v.kind = "dict" /\ KeysOf(v.d) # {}

-----------------------------------------------------------------------------
(* str methods used by the parsers *)

RECURSIVE LStrip(_)
LStrip(s) == IF s # <<>> /\ Head(s) \in WS THEN LStrip(Tail(s)) ELSE s

RECURSIVE RStrip(_)
RStrip(s) == IF s # <<>> /\ s[Len(s)] \in WS
             THEN RStrip(SubSeq(s, 1, Len(s) - 1)) ELSE s

\* str.strip()
Strip(s) == RStrip(LStrip(s))

\* s.startswith('```') and s.endswith('```')
StartsWithFence(s) == s # <<>> /\ s[1] = "fence"
EndsWithFence(s) == s # <<>> /\ s[Len(s)] = "fence"

\* '\n' in s
HasNewline(s) == \E i \in 1..Len(s) : s[i] = "nl"

\* 1-based position of the first / last occurrence of tok, 0 if there is none
\* (str.find / str.rfind return that position minus one)
Find(s, tok) ==
    IF \E i \in 1..Len(s) : s[i] = tok
    THEN CHOOSE i \in 1..Len(s) : s[i] = tok /\ \A j \in 1..(i - 1) : s[j] # tok
    ELSE 0

RFind(s, tok) ==
    IF \E i \in 1..Len(s) : s[i] = tok
    THEN CHOOSE i \in 1..Len(s) :
             s[i] = tok /\ \A j \in (i + 1)..Len(s) : s[j] # tok
    ELSE 0

\* s.split('\n', 1)[1] and s.rsplit('\n', 1)[0], for s holding a newline
AfterFirstNewline(s) == SubSeq(s, Find(s, "nl") + 1, Len(s))
BeforeLastNewline(s) == SubSeq(s, 1, RFind(s, "nl") - 1)

-----------------------------------------------------------------------------
(* json.loads *)

JsonFail == [kind |-> "fail", d |-> EmptyDict, exc |-> "JSONDecodeError"]

RECURSIVE DictOfMembers(_)
\* later members overwrite earlier ones with the same key, as json.loads does
DictOfMembers(ms) ==
    IF ms = <<>> THEN EmptyDict
    ELSE LET n == Len(ms)
             rest == DictOfMembers(SubSeq(ms, 1, n - 1))
         IN IF ms[n] \in WS THEN rest
            ELSE [rest EXCEPT ![TokKey(ms[n])] = TokVal(ms[n])]

json_loads(s) ==
    LET core == Strip(s)
        n == Len(core)
    IN IF core = <<"arr">> THEN PyList
       ELSE IF /\ n >= 2
               /\ core[1] = "lb"
               /\ core[n] = "rb"
               /\ \A i \in 2..(n - 1) : core[i] \in KeyTokens \cup WS
            THEN PyDict(DictOfMembers(SubSeq(core, 2, n - 1)))
            ELSE JsonFail

-----------------------------------------------------------------------------
(* What the text-generation endpoint does with one generation request *)

NoReply == [kind |-> "none", status |-> 0, body |-> "", text |-> <<>>]
ConnError == [kind |-> "conn_error", status |-> 0, body |-> "", text |-> <<>>]
TimedOut == [kind |-> "timeout", status |-> 0, body |-> "", text |-> <<>>]
HttpError == [kind |-> "http", status |-> 500, body |-> "", text |-> <<>>]
\* status 200 with a body that is not JSON
BadBody == [kind |-> "http", status |-> 200, body |-> "malformed", text |-> <<>>]
\* status 200 with a JSON body that has no 'response' member
NoResponseKey == [kind |-> "http", status |-> 200, body |-> "no_response_key",
                  text |-> <<>>]
\* status 200 with a JSON body whose 'response' member is the text
Generated(text) == [kind |-> "http", status |-> 200, body |-> "json",
                    text |-> text]

-----------------------------------------------------------------------------
(* AIAnalyzer (ai_analyzer.py) *)

\* requests.post(..., timeout=300): the request is sent with a timeout
AIAnalyzerTimeout == 300

\* variant: _call_ai tags what it returns with the condition it met
call_ai_tagged(r) ==
    IF r.kind = "http" /\ r.status = 200 /\ r.body = "json"
          /\ json_loads(r.text).kind # "fail"
    THEN [ret |-> IF json_loads(r.text).kind = "list" THEN PyList
                  ELSE PyDict(json_loads(r.text).d),
          log |-> ""]
    ELSE [ret |-> [kind |-> "failure", d |-> EmptyDict,
                   exc |-> IF r.kind = "timeout" THEN "TIMEOUT" ELSE "NETWORK"],
          log |-> "request_failed"]

\* _call_ai from the point where requests.post returns or raises: the value
\* it returns and the failure it logs.  None is the only failure value.
\* (response.json() on a non-JSON body raises requests' JSONDecodeError, a
\* RequestException, so the first except clause takes it.)
call_ai(r) ==
    IF r.kind \in {"conn_error", "timeout"}
    THEN [ret |-> PyNone, log |-> "request_failed"]
    ELSE IF r.status >= 400
    THEN [ret |-> PyNone, log |-> "request_failed"]
    ELSE IF r.body = "malformed"
    THEN [ret |-> PyNone, log |-> "request_failed"]
    ELSE LET parsed == IF r.body = "no_response_key"
                       THEN json_loads(<<"lb", "rb">>)
                       ELSE json_loads(r.text)
         IN IF parsed.kind = "fail"
            THEN [ret |-> PyNone, log |-> "json_decode"]
            ELSE [ret |-> parsed, log |-> ""]

ScrapStub ==
    PyDict([EmptyDict EXCEPT !["executive_summary"] = VStr("scraps_failed"),
                             !["root_causes"] = VList(<<>>),
                             !["recommendations"] = VList(<<>>)])

FailStub ==
    PyDict([EmptyDict EXCEPT !["executive_summary"] = VStr("fails_failed"),
                             !["root_causes"] = VList(<<>>),
                             !["recommendations"] = VList(<<>>),
                             !["kaizen_project_proposal"] = VNull])

BreakdownStub ==
    PyDict([EmptyDict EXCEPT !["executive_summary"] = VStr("breakdowns_failed"),
                             !["root_causes"] = VList(<<>>),
                             !["recommendations"] = VList(<<>>),
                             !["kaizen_project_proposal"] = VNull])

\* variant: analyze_defects hands on whatever _call_ai returned
analyze_defects_unsubstituted(ai_response) == ai_response

\* the 'if ai_response: return ai_response / return {...}' tail shared by
\* analyze_defects, analyze_fails and analyze_breakdowns
analyze_defects(ai_response) ==
    IF Truthy(ai_response) THEN ai_response ELSE ScrapStub

\* variant: analyze_fails takes a response without its required keys for a
\* failed one
analyze_fails_validated(ai_response) ==
    IF /\ Truthy(ai_response)
       /\ \A k \in {"executive_summary", "root_causes", "recommendations"} :
              HasKey(ai_response.d, k)
    THEN ai_response ELSE FailStub


analyze_fails(ai_response) ==
    IF Truthy(ai_response) THEN ai_response ELSE FailStub

analyze_breakdowns(ai_response) ==
    IF Truthy(ai_response) THEN ai_response ELSE BreakdownStub

\* ranking[:n]
Take(s, n) == SubSeq(s, 1, IF Len(s) < n THEN Len(s) ELSE n)

PromptTopN == 5

\* _create_scrap_analysis_prompt: the entries it embeds; top_defects[0] in
\* the template raises IndexError on an empty ranking
create_scrap_analysis_prompt(top_defects) ==
    IF top_defects = <<>>
    THEN [raises |-> "IndexError", entries |-> <<>>]
    ELSE [raises |-> "", entries |-> Take(top_defects, PromptTopN)]

\* variant: the whole of statistics['top_defects'] is embedded
create_fail_analysis_prompt_untruncated(stats) ==
    [raises |-> "", entries |-> stats.ranking]

\* _create_fail_analysis_prompt: statistics['top_defects'][0] is guarded
create_fail_analysis_prompt(stats) ==
    [raises |-> "", entries |-> Take(stats.ranking, PromptTopN)]

\* _create_stoppage_analysis_prompt embeds the rankings as they are
create_stoppage_analysis_prompt(stats) ==
    [raises |-> "", entries |-> stats.ranking]

-----------------------------------------------------------------------------
(* Aggregation of the event records *)

Labels == {"BRIDGING", "COLD_JOINT", "THERMAL_DAMAGE"}

Volumes == {0, 1000}

\* the number of records with label l
CountOf(R, l) == Cardinality({i \in 1..Len(R) : R[i] = l})

\* the distinct labels in the order in which a dict first receives them
FirstSeen(R) ==
    LET first == {i \in 1..Len(R) : \A j \in 1..(i - 1) : R[j] # R[i]}
    IN [k \in 1..Cardinality(first) |->
           R[CHOOSE i \in first : Cardinality({j \in first : j <= i}) = k]]

RECURSIVE ItemsOf(_, _)
\* the count of each label of ls, in the order of ls
ItemsOf(R, ls) ==
    IF ls = <<>> THEN <<>>
    ELSE <<[label |-> Head(ls), count |-> CountOf(R, Head(ls))]>>
             \o ItemsOf(R, Tail(ls))

\* defect_counts.items(): label and count, in insertion order
CountItems(R) == ItemsOf(R, FirstSeen(R))

RECURSIVE InsertDesc_unstable(_, _)
\* variant: x goes in front of the entries with an equal count
InsertDesc_unstable(sorted, x) ==
    IF sorted = <<>> THEN <<x>>
    ELSE IF Head(sorted).count > x.count
         THEN <<Head(sorted)>> \o InsertDesc_unstable(Tail(sorted), x)
         ELSE <<x>> \o sorted

RECURSIVE InsertDesc(_, _)
\* x goes behind every entry whose count is not smaller (stable)
InsertDesc(sorted, x) ==
    IF sorted = <<>> THEN <<x>>
    ELSE IF Head(sorted).count >= x.count
         THEN <<Head(sorted)>> \o InsertDesc(Tail(sorted), x)
         ELSE <<x>> \o sorted

\* variant: the items are left in insertion order
SortedDesc_unsorted(items) == items

RECURSIVE SortedDesc(_)
\* sorted(items, key=count, reverse=True): descending, stable
SortedDesc(items) ==
    IF items = <<>> THEN <<>>
    ELSE InsertDesc(SortedDesc(SubSeq(items, 1, Len(items) - 1)),
                    items[Len(items)])

\* count / boards * 100 guarded against boards <= 0, in hundredths of a percent
RateOf(count, boards) ==
    IF boards > 0 THEN (count * 10000) \div boards ELSE 0

\* a statistics dict: total, boards, rate and ranking are its count, volume,
\* rate and (truncated) frequency ranking, table is the frequency table it
\* keeps in full and keys the keys it holds
NoStatistics ==
    [total |-> 0, boards |-> 0, rate |-> 0, ranking |-> <<>>, table |-> <<>>,
     keys |-> {}]

\* variant: an empty feed is reported as one placeholder entry
calculate_top_defects_placeholder(R) ==
    IF R = <<>> THEN <<[label |-> "Unknown", count |-> 0]>>
    ELSE SortedDesc(CountItems(R))

\* AIScrapAnalysisApp._calculate_top_defects
calculate_top_defects(R) == SortedDesc(CountItems(R))

\* AIScrapAnalysisApp._calculate_statistics
calculate_statistics(boards, R) ==
    [total |-> Len(R), boards |-> boards, rate |-> RateOf(Len(R), boards),
     ranking |-> <<>>, table |-> <<>>,
     keys |-> {"scrap_rate", "total_scraps", "total_boards", "area_stats",
               "product_stats", "top_areas", "top_products"}]

FailTopN == 10

\* FailAnalyzer._calculate_fail_statistics
calculate_fail_statistics(R, boards) ==
    [total |-> Len(R), boards |-> boards, rate |-> RateOf(Len(R), boards),
     ranking |-> Take(SortedDesc(CountItems(R)), FailTopN),
     table |-> CountItems(R),
     keys |-> {"total_fails", "total_boards", "fail_rate", "defect_stats",
               "top_defects", "top_products", "top_areas", "unique_defects",
               "unique_products", "unique_areas"}]

\* the keys of the dicts of _calculate_basic_statistics and
\* _calculate_empty_statistics
BasicStatisticsKeys ==
    {"total_fails", "total_boards", "fail_rate", "defect_stats", "top_defects",
     "top_products", "unique_defects", "unique_products"}

\* FailAnalyzer._calculate_basic_statistics: total_boards is estimated as ten
\* boards a fail
calculate_basic_statistics(R) ==
    [total |-> Len(R), boards |-> Len(R) * 10, rate |-> 0, ranking |-> <<>>,
     table |-> <<>>, keys |-> BasicStatisticsKeys]

\* FailAnalyzer._calculate_empty_statistics
calculate_empty_statistics ==
    [total |-> 0, boards |-> 0, rate |-> 0, ranking |-> <<>>, table |-> <<>>,
     keys |-> BasicStatisticsKeys]

BreakdownTopN == 5

\* the entries of items that hold the largest count
MaxItems(S) == {x \in S : \A y \in S : y.count <= x.count}

RECURSIVE Descending(_)
\* every arrangement of the entries of S by descending count
Descending(S) ==
    IF S = {} THEN {<<>>}
    ELSE UNION {{<<x>> \o t : t \in Descending(S \ {x})} : x \in MaxItems(S)}

\* df['DescriptionRO'].value_counts().to_dict(): descending by count; the
\* order among equal counts is whatever the unstable default sort of pandas
\* leaves, so every descending arrangement is an outcome
value_counts(R) ==
    LET items == CountItems(R)
    IN Descending({items[i] : i \in 1..Len(items)})

\* BreakdownAnalyzer._calculate_breakdown_statistics, problem_freq being the
\* outcome of value_counts
calculate_breakdown_statistics(R, boards, problem_freq) ==
    IF R = <<>>
    THEN [total |-> 0, boards |-> boards, rate |-> 0, ranking |-> <<>>,
          table |-> <<>>,
          keys |-> {"total_stoppages", "total_downtime_hours",
                    "total_boards_produced", "avg_downtime_minutes",
                    "problem_frequency", "top_problems_by_freq",
                    "top_problems_by_time", "top_lines_by_time"}]
    ELSE [total |-> Len(R), boards |-> boards, rate |-> 0,
          ranking |-> Take(problem_freq, BreakdownTopN),
          table |-> problem_freq,
          keys |-> {"total_stoppages", "total_downtime_hours",
                    "total_boards_produced", "total_orders",
                    "avg_downtime_minutes", "unique_problems_count",
                    "problem_frequency", "top_problems_by_freq",
                    "top_problems_by_time", "top_lines_by_time"}]

\* AIReportGenerator._analyze_scraps
analyze_scraps(R, boards) ==
    [total |-> Len(R), boards |-> boards, rate |-> RateOf(Len(R), boards),
     ranking |-> Take(SortedDesc(CountItems(R)), PromptTopN),
     table |-> <<>>,
     keys |-> {"total_scraps", "scrap_rate", "top_defects", "top_areas",
               "top_products"}]

-----------------------------------------------------------------------------
(* OllamaAIAnalyzer (ai_integration.py) *)

Probes == {"model_listed", "model_missing", "bad_status", "conn_error",
           "other_error"}

\* variant: the client counts as available whatever the probe found
initialize_client_optimistic(probe) == TRUE

\* _initialize_client: available is True only when /api/tags answers 200 and
\* lists the model
initialize_client(probe) == probe = "model_listed"

OllamaTimeout == 60

PyStr == [kind |-> "str", d |-> EmptyDict, exc |-> ""]

\* _call_ollama from the point where requests.post returns or raises: the
\* value (None or the generated text) and the failure it logs
call_ollama(r) ==
    IF r.kind = "timeout" THEN [ret |-> PyNone, text |-> <<>>, log |-> "timeout"]
    ELSE IF r.kind = "conn_error"
    THEN [ret |-> PyNone, text |-> <<>>, log |-> "request_failed"]
    ELSE IF r.status # 200
    THEN [ret |-> PyNone, text |-> <<>>, log |-> "api_error"]
    ELSE IF r.body = "malformed"
    THEN [ret |-> PyNone, text |-> <<>>, log |-> "request_failed"]
    ELSE IF r.body = "no_response_key"
    THEN [ret |-> PyStr, text |-> <<>>, log |-> ""]
    ELSE [ret |-> PyStr, text |-> r.text, log |-> ""]

\* the removal of markdown code-block markers
StripCodeBlock(response) ==
    LET r0 == Strip(response)
        r1 == IF StartsWithFence(r0)
              THEN (IF HasNewline(r0) THEN AfterFirstNewline(r0) ELSE Tail(r0))
              ELSE r0
    IN IF EndsWithFence(r1)
       THEN (IF HasNewline(r1) THEN BeforeLastNewline(r1)
             ELSE SubSeq(r1, 1, Len(r1) - 1))
       ELSE r1

\* the span from the first { to the last }, parsed; JsonFail when there is no
\* such span ("No valid JSON found") or json.loads rejects it
ParseResponse(response) ==
    LET r == StripCodeBlock(response)
        json_start == Find(r, "lb")
        json_end == RFind(r, "rb")
    IN IF json_start # 0 /\ json_end >= json_start
       THEN json_loads(SubSeq(r, json_start, json_end))
       ELSE JsonFail

required_keys == {"priority_actions", "root_causes", "process_improvements",
                  "preventive_measures", "training_needs", "equipment_checks"}

\* variant: the parsed object is kept as the model wrote it
FillRequired_kept(d) == d

\* for key in required_keys: if key not in recommendations: ... = []
FillRequired(d) ==
    [k \in AllKeys |-> IF k \in required_keys /\ ~HasKey(d, k)
                       THEN VList(<<>>) ELSE d[k]]

ModelName == "llama3.2"

AiMetadata == VObj(<<ModelName>>, "")

FallbackMetadata == VObj(<<"N/A (fallback mode)">>, "rule_based_fallback")

\* the substrings of a label that the keyword rules test for
KeywordsIn(label) ==
    CASE label = "BRIDGING" -> {"BRIDGING"}
      [] label = "THERMAL_DAMAGE" -> {"THERMAL", "DAMAGE"}
      [] OTHER -> {}

\* variant: of the labels with the greatest count the last one is taken
MostCommon_last(items) ==
    IF items = <<>> THEN "Unknown"
    ELSE LET i == CHOOSE i \in 1..Len(items) :
                      /\ \A j \in 1..Len(items) : items[j].count <= items[i].count
                      /\ \A j \in (i + 1)..Len(items) :
                             items[j].count < items[i].count
         IN items[i].label

\* max(defect_types.items(), key=count)[0], "Unknown" for no items
MostCommon(items) ==
    IF items = <<>> THEN "Unknown"
    ELSE LET i == CHOOSE i \in 1..Len(items) :
                      /\ \A j \in 1..Len(items) : items[j].count <= items[i].count
                      /\ \A j \in 1..(i - 1) : items[j].count < items[i].count
         IN items[i].label

FallbackTrainingThreshold == 50

\* variant: no keyword rule adds its entry
Rule_never(kws, hit, entry) == <<>>

\* if any(keyword in most_common_defect.upper() for keyword in [...]): append
Rule(kws, hit, entry) == IF kws \cap hit # {} THEN <<entry>> ELSE <<>>

\* variant: the training entries are added from the threshold on
training_needs_inclusive(total_defects) ==
    IF total_defects >= FallbackTrainingThreshold
    THEN <<"operators", "technicians", "ipc_certification">>
    ELSE <<>>

\* recommendations['training_needs'] of the fallback
training_needs(total_defects) ==
    IF total_defects > FallbackTrainingThreshold
    THEN <<"operators", "technicians", "ipc_certification">>
    ELSE <<>>

\* the recommendations the rules give for most_common_defect
fallback_rules(total_defects, most_common_defect) ==
    LET kws == KeywordsIn(most_common_defect)
        cold == {"COLD_SOLDER", "INSUFFICIENT"}
        bridging == {"BRIDGING", "BRIDGE"}
        icicle == {"ICICLE", "SPIKE"}
        thermal == {"THERMAL", "DAMAGE"}
        contamination == {"CONTAMINATION", "CONTAMIN"}
    IN PyDict([EmptyDict EXCEPT
        !["priority_actions"] =
            VList(Rule(kws, cold, "high") \o Rule(kws, bridging, "high")
                  \o Rule(kws, icicle, "medium") \o Rule(kws, thermal, "high")
                  \o Rule(kws, contamination, "high")),
        !["root_causes"] =
            VList(Rule(kws, cold, "bath_temperature")
                  \o Rule(kws, bridging, "conveyor_speed")
                  \o Rule(kws, icicle, "wave_angle")
                  \o Rule(kws, thermal, "thermal_shock")
                  \o Rule(kws, contamination, "flux_degraded")),
        !["process_improvements"] =
            VList(Rule(kws, cold, "raise_preheating")
                  \o Rule(kws, bridging, "flux_density")
                  \o Rule(kws, thermal, "soak_time")),
        !["equipment_checks"] =
            VList(Rule(kws, cold, "daily_bath_temperature")
                  \o Rule(kws, bridging, "weekly_wave_height")
                  \o Rule(kws, icicle, "monthly_wave_geometry")
                  \o Rule(kws, contamination, "weekly_alloy_purity")),
        !["training_needs"] =
            VList(training_needs(total_defects)),
        !["preventive_measures"] =
            VList(<<"daily_checklist", "fpy_monitoring", "monthly_maintenance">>),
        !["technical_insights"] =
            VList(<<"defect_concentration", "machine_attention", "sac_delta_t">>),
        !["metadata"] = FallbackMetadata])

\* variant: max() is taken of the distribution without the emptiness guard
generate_fallback_recommendations_unguarded(total_defects, items) ==
    IF items = <<>> THEN PyRaise("ValueError")
    ELSE fallback_rules(total_defects, MostCommon(items))

\* _generate_fallback_recommendations
generate_fallback_recommendations(total_defects, items) ==
    fallback_rules(total_defects, MostCommon(items))

\* generate_enhanced_recommendations after _call_ollama has returned
enhanced_recommendations(called, total_defects, items) ==
    IF called.ret.kind = "none" \/ called.text = <<>>
    THEN generate_fallback_recommendations(total_defects, items)
    ELSE LET parsed == ParseResponse(called.text)
             filled == FillRequired(parsed.d)
         IN IF parsed.kind # "dict"
            THEN generate_fallback_recommendations(total_defects, items)
            ELSE IF \E k \in {"priority_actions", "root_causes"} :
                        filled[k].t = "null"
            \* len(None) in the success log raises TypeError, caught outermost
            THEN generate_fallback_recommendations(total_defects, items)
            ELSE PyDict([filled EXCEPT !["metadata"] = AiMetadata])

-----------------------------------------------------------------------------
(* Inputs of a run *)

RECURSIVE SeqsUpTo(_, _)
SeqsUpTo(S, n) ==
    IF n = 0 THEN {<<>>}
    ELSE LET shorter == SeqsUpTo(S, n - 1)
         IN shorter \cup {Append(q, x) : q \in shorter, x \in S}

RecordSets == SeqsUpTo(Labels, MaxRecords)

\* the external collaborators (event feed, renderers) work, or one of them raises
ExtBehaviours == {"ok", "fetch_fails", "render_fails"}

\* the records are well-formed, or one of them makes the aggregation raise
RecordBehaviours == {"ok", "bad_record"}

BareFull == <<"lb", "executive_summary", "root_causes", "recommendations",
              "kaizen_project_proposal", "rb">>
BarePartial == <<"lb", "executive_summary", "rb">>
BareEmpty == <<"lb", "rb">>
BareNullList == <<"lb", "executive_summary", "root_causes_null",
                  "recommendations", "rb">>
BareUrgent == <<"lb", "executive_summary", "root_causes",
                "recommendations_urgent", "rb">>
BareOllama == <<"sp", "lb", "priority_actions", "nl", "root_causes", "rb", "nl">>
ScenarioC == <<"txt", "sp", "fence", "txt", "sp", "lb", "executive_summary",
               "root_causes", "recommendations", "kaizen_project_proposal",
               "rb", "sp", "fence", "sp">>
FenceOnJsonLine == <<"fence", "txt", "sp", "lb", "priority_actions", "rb",
                     "nl", "fence">>
Prose == <<"txt", "sp", "txt">>
Truncated == <<"lb", "executive_summary">>

ResponseTexts == {BareFull, BarePartial, BareEmpty, BareNullList, BareUrgent,
                  BareOllama,
                  ScenarioC, FenceOnJsonLine, Prose, Truncated, <<"arr">>,
                  <<>>}

\* every way a request can end other than by its timeout
Responses == {ConnError, HttpError, BadBody, NoResponseKey}
                 \cup {Generated(t) : t \in ResponseTexts}

-----------------------------------------------------------------------------
(* The runs *)

Domains == {"scrap", "fail", "breakdown", "wave", "report"}

\* the analyses that go through AIAnalyzer
AIDomains == {"scrap", "fail", "breakdown"}

NoReport == [present |-> FALSE, statistics |-> NoStatistics, insight |-> PyNone]

Returned(success, outcome, error) ==
    [success |-> success, outcome |-> outcome, error |-> error]

NoResult == Returned(FALSE, "", "")

NoData(kind) == PyDict([EmptyDict EXCEPT ![kind.key] = VStr(kind.text)])

\* self.base_url, self.model_name and self.timeout of OllamaAIAnalyzer,
\* self.base_url and self.model of AIAnalyzer, as the constructors set them
Constructed ==
    [ollama |-> [base_url |-> "http://localhost:11434",
                 model_name |-> ModelName, timeout |-> OllamaTimeout],
     analyzer |-> [base_url |-> "http://localhost:11434",
                   model |-> "llama3.2:latest"]]

\* variant: a request that timed out makes the instance wait longer next time
after_call_backoff(inst, r) ==
    IF r.kind = "timeout"
    THEN [inst EXCEPT !.ollama.timeout = AIAnalyzerTimeout]
    ELSE inst

\* the attributes after _call_ollama or _call_ai: neither assigns any
after_call(inst, r) == inst

\* variant: the connection is closed at the end of the try block
run_analysis_finally_on_success(conn, res) ==
    IF res.success THEN FALSE ELSE conn

\* finally: self.db.disconnect(), whatever run_analysis returns
run_analysis_finally(conn, res) == FALSE

Init ==
    /\ available \in {initialize_client(p) : p \in Probes}
    /\ config = Constructed
    /\ prompt = <<>>
    /\ connected = TRUE
    /\ calls = 1
    /\ pc = "idle"
    /\ domain = ""
    /\ records = <<>>
    /\ volume = 0
    /\ ext = "ok"
    /\ known = TRUE
    /\ statistics = NoStatistics
    /\ requests = 0
    /\ reply = NoReply
    /\ logged = ""
    /\ callret = PyNone
    /\ insight = PyNone
    /\ report = NoReport
    /\ result = NoResult
    /\ clock = 0
    /\ assembled = <<>>

\* a run that ends without a generation request having been sent
EndsAtOnce(ins, rep, res) ==
    /\ pc' = "done"
    /\ insight' = ins
    /\ report' = rep
    /\ result' = res
    /\ UNCHANGED <<requests, reply, logged, callret>>

\* variant: the request is posted a second time
SendsRequestTwice ==
    /\ pc' = "waiting"
    /\ requests' = requests + 2
    /\ UNCHANGED <<reply, logged, callret, insight, report, result>>

\* requests.post: the generation request leaves and the run blocks on it
SendsRequest ==
    /\ pc' = "waiting"
    /\ requests' = requests + 1
    /\ UNCHANGED <<reply, logged, callret, insight, report, result>>

\* AIScrapAnalysisApp.run_analysis up to the request of analyze_defects
RunAnalysisStart(R, boards, e) ==
    /\ pc = "idle"
    /\ domain' = "scrap" /\ records' = R /\ volume' = boards /\ ext' = e
    /\ UNCHANGED <<available, known, clock, assembled, config, calls>>
    /\ e = "bad_record" => R # <<>>
    /\ statistics' = IF e \in {"fetch_fails", "bad_record"} THEN NoStatistics
                      ELSE [NoStatistics EXCEPT
                               !.ranking = calculate_top_defects(R),
                               !.table = calculate_top_defects(R)]
    /\ IF e = "fetch_fails"
       THEN /\ EndsAtOnce(PyNone, NoReport, Returned(FALSE, "error", "fetch"))
            /\ prompt' = <<>>
            /\ connected' = run_analysis_finally(
                                connected, Returned(FALSE, "error", "fetch"))
       ELSE IF e = "bad_record"
       \* scrap['Defect'] raises KeyError in _calculate_top_defects
       THEN /\ EndsAtOnce(PyNone, NoReport,
                          Returned(FALSE, "error", "KeyError"))
            /\ prompt' = <<>>
            /\ connected' = run_analysis_finally(
                                connected, Returned(FALSE, "error", "KeyError"))
       ELSE LET p == create_scrap_analysis_prompt(calculate_top_defects(R))
            IN IF p.raises # ""
               THEN /\ EndsAtOnce(PyRaise(p.raises), NoReport,
                                  Returned(FALSE, "error", p.raises))
                    /\ prompt' = <<>>
                    /\ connected' = run_analysis_finally(
                                        connected,
                                        Returned(FALSE, "error", p.raises))
               ELSE /\ SendsRequest
                    /\ prompt' = p.entries
                    /\ connected' = connected

\* run_analysis from the return of analyze_defects to its own return
run_analysis_tail(ins, boards, R, e, top_defects) ==
    IF ins.kind # "dict"
    THEN [report |-> NoReport, result |-> Returned(FALSE, "error", "AttributeError")]
    ELSE IF ins.d["root_causes"].t = "null" \/ ins.d["recommendations"].t = "null"
    THEN [report |-> NoReport, result |-> Returned(FALSE, "error", "TypeError")]
    ELSE [report |-> [present |-> TRUE,
                      statistics |-> [calculate_statistics(boards, R) EXCEPT
                                         !.ranking = top_defects,
                                         !.table = top_defects],
                      insight |-> ins],
          result |-> IF e = "render_fails"
                     THEN Returned(FALSE, "error", "render")
                     ELSE Returned(TRUE, "report", "")]

\* variant: an exception of _calculate_fail_statistics leaves no statistics
fail_statistics_unsubstituted(R, boards, e) ==
    IF R = <<>> THEN calculate_empty_statistics
    ELSE IF e = "bad_record" THEN NoStatistics
    ELSE calculate_fail_statistics(R, boards)

\* the statistics of analyze_fails: an exception inside
\* _calculate_fail_statistics is caught there and answered with
\* _calculate_basic_statistics
fail_statistics(R, boards, e) ==
    IF R = <<>> THEN calculate_empty_statistics
    ELSE IF e = "bad_record" THEN calculate_basic_statistics(R)
    ELSE calculate_fail_statistics(R, boards)

\* FailAnalyzer.analyze_fails up to the request of AIAnalyzer.analyze_fails
AnalyzeFailsStart(R, boards, e) ==
    /\ pc = "idle"
    /\ e = "bad_record" => R # <<>>
    /\ domain' = "fail" /\ records' = R /\ volume' = boards /\ ext' = e
    /\ UNCHANGED <<available, known, clock, assembled, config, calls,
                   connected>>
    /\ statistics' = fail_statistics(R, boards, e)
    /\ IF R = <<>>
       THEN LET ins == NoData([key |-> "analysis_type", text |-> "no_data"])
            IN /\ EndsAtOnce(ins,
                             [present |-> TRUE,
                              statistics |-> calculate_empty_statistics,
                              insight |-> ins],
                             Returned(FALSE, "no_data", ""))
               /\ prompt' = <<>>
       ELSE /\ SendsRequest
            /\ prompt' = create_fail_analysis_prompt(
                              fail_statistics(R, boards, e)).entries

\* what the except clause of analyze_breakdowns hands on when the statistics
\* computation raised exc: it computes the statistics again, which raises
\* again
breakdown_error_handler(exc) == PyRaise(exc)

\* BreakdownAnalyzer.analyze_breakdowns up to the request of
\* AIAnalyzer.analyze_breakdowns
AnalyzeBreakdownsStart(R, boards, e) ==
    /\ pc = "idle"
    /\ e = "bad_record" => R # <<>>
    /\ domain' = "breakdown" /\ records' = R /\ volume' = boards /\ ext' = e
    /\ UNCHANGED <<available, known, clock, assembled, config, calls,
                   connected>>
    /\ IF e = "bad_record"
       \* _calculate_breakdown_statistics raises, and raises again when the
       \* except clause calls it for stats_fallback
       THEN /\ statistics' = NoStatistics
            /\ EndsAtOnce(breakdown_error_handler("KeyError"), NoReport,
                          Returned(FALSE, "raise", "KeyError"))
            /\ prompt' = <<>>
       ELSE /\ \E problem_freq \in value_counts(R) :
                   /\ statistics' = calculate_breakdown_statistics(
                                         R, boards, problem_freq)
                   /\ prompt' = IF R = <<>> THEN <<>>
                                ELSE create_stoppage_analysis_prompt(
                                         calculate_breakdown_statistics(
                                             R, boards, problem_freq)).entries
            /\ IF R = <<>>
               THEN LET ins == NoData([key |-> "executive_summary",
                                       text |-> "no_breakdown_data"])
                    IN EndsAtOnce(ins,
                                  [present |-> TRUE,
                                   statistics |->
                                       calculate_breakdown_statistics(
                                           R, boards, <<>>),
                                   insight |-> ins],
                                  Returned(TRUE, "report", ""))
               ELSE SendsRequest

\* the analysis_results handed to generate_enhanced_recommendations:
\* total_defects and defect_distribution of the records
analysis_results(R) ==
    [total |-> Len(R), boards |-> 0, rate |-> 0, ranking |-> CountItems(R),
     table |-> CountItems(R),
     keys |-> {"total_defects", "defect_distribution"}]

\* OllamaAIAnalyzer.generate_enhanced_recommendations up to requests.post in
\* _call_ollama; an unavailable instance skips the request
EnhancedRecommendationsStart(R) ==
    /\ pc = "idle"
    /\ domain' = "wave" /\ records' = R /\ volume' = 0 /\ ext' = "ok"
    /\ UNCHANGED <<available, known, clock, assembled, config, calls,
                   connected>>
    /\ prompt' = <<>>
    /\ statistics' = analysis_results(R)
    /\ IF ~available
       THEN /\ pc' = "done"
            /\ logged' = "skip"
            /\ callret' = PyNone
            /\ insight' = generate_fallback_recommendations(
                               analysis_results(R).total,
                               analysis_results(R).ranking)
            /\ result' = Returned(TRUE, "recommendations", "")
            /\ UNCHANGED <<requests, reply, report>>
       ELSE SendsRequest

\* AIReportGenerator.generate_complete_report: no Insight Client is involved
GenerateCompleteReport(R, boards, e) ==
    /\ pc = "idle"
    /\ domain' = "report" /\ records' = R /\ volume' = boards /\ ext' = e
    /\ UNCHANGED <<available, known, clock, assembled, config, calls,
                   connected>>
    /\ prompt' = <<>>
    /\ statistics' = IF e = "fetch_fails" \/ R = <<>> THEN NoStatistics
                      ELSE analyze_scraps(R, boards)
    /\ IF e = "fetch_fails"
       THEN EndsAtOnce(PyNone, NoReport, Returned(FALSE, "raise", "fetch"))
       ELSE IF R = <<>>
       THEN EndsAtOnce(PyNone, NoReport, Returned(FALSE, "no_data", ""))
       ELSE IF e = "render_fails"
       THEN EndsAtOnce(PyNone, NoReport, Returned(FALSE, "raise", "render"))
       ELSE EndsAtOnce(PyNone,
                       [present |-> TRUE,
                        statistics |-> analyze_scraps(R, boards),
                        insight |-> PyNone],
                       Returned(TRUE, "report", ""))

\* variant: requests.post is given no timeout
RequestTimeout_unset(dom) == 0

\* the timeout the run's client passes to requests.post, in seconds
RequestTimeout(dom) ==
    IF dom = "wave" THEN OllamaTimeout ELSE AIAnalyzerTimeout

\* what the run holds once requests.post has returned or raised: the value
\* of _call_ai or _call_ollama, the message logged, the Insight, the report
\* model and the value returned to the caller
RunOutcome(dom, r, stats, R, boards, e) ==
    IF dom = "wave"
    THEN LET called == call_ollama(r)
         IN [callret |-> called.ret,
             logged |-> called.log,
             insight |-> enhanced_recommendations(called, stats.total,
                                                  stats.ranking),
             report |-> NoReport,
             result |-> Returned(TRUE, "recommendations", "")]
    ELSE LET called == call_ai(r)
             ins == CASE dom = "scrap" -> analyze_defects(called.ret)
                      [] dom = "fail" -> analyze_fails(called.ret)
                      [] OTHER -> analyze_breakdowns(called.ret)
             tail == IF dom = "scrap"
                     THEN run_analysis_tail(ins, boards, R, e, stats.ranking)
                     ELSE [report |-> [present |-> TRUE, statistics |-> stats,
                                       insight |-> ins],
                           result |-> Returned(TRUE, "report", "")]
         IN [callret |-> called.ret,
             logged |-> called.log,
             insight |-> ins,
             report |-> tail.report,
             result |-> tail.result]

\* the rest of the run once requests.post has returned or raised
Finish(r) ==
    LET o == RunOutcome(domain, r, statistics, records, volume, ext)
    IN /\ pc' = "done"
       /\ reply' = r
       /\ callret' = o.callret
       /\ logged' = o.logged
       /\ insight' = o.insight
       /\ report' = o.report
       /\ result' = o.result
       /\ config' = after_call(config, r)
       /\ connected' = IF domain = "scrap"
                       THEN run_analysis_finally(connected, o.result)
                       ELSE connected
       /\ UNCHANGED <<available, domain, records, volume, ext, known,
                      statistics, requests, clock, assembled, prompt, calls>>

\* the endpoint answers, or the transport fails, before the timeout
Respond(r) ==
    /\ pc = "waiting"
    /\ Finish(r)

\* the timeout given to requests.post elapses first
TimeoutElapses ==
    /\ pc = "waiting"
    /\ RequestTimeout(domain) > 0
    /\ Finish(TimedOut)

\* the caller starts over with the same instances
NewRun ==
    /\ pc = "done"
    /\ calls < MaxCalls
    /\ calls' = calls + 1
    /\ prompt' = <<>>
    /\ pc' = "idle"
    /\ domain' = "" /\ records' = <<>> /\ volume' = 0 /\ ext' = "ok"
    /\ statistics' = NoStatistics
    /\ requests' = 0 /\ reply' = NoReply /\ logged' = ""
    /\ callret' = PyNone /\ insight' = PyNone
    /\ report' = NoReport /\ result' = NoResult
    /\ UNCHANGED <<available, known, clock, assembled, config, connected>>

Next ==
    \/ \E R \in RecordSets, b \in Volumes,
          e \in ExtBehaviours \cup RecordBehaviours :
           RunAnalysisStart(R, b, e)
    \/ \E R \in RecordSets, b \in Volumes, e \in RecordBehaviours :
           AnalyzeFailsStart(R, b, e)
    \/ \E R \in RecordSets, b \in Volumes, e \in RecordBehaviours :
           AnalyzeBreakdownsStart(R, b, e)
    \/ \E R \in RecordSets : EnhancedRecommendationsStart(R)
    \/ \E R \in RecordSets, b \in Volumes, e \in ExtBehaviours :
           GenerateCompleteReport(R, b, e)
    \/ \E r \in Responses : Respond(r)
    \/ TimeoutElapses
    \/ NewRun

Spec == Init /\ [][Next]_vars

\* requests.post returns or raises at the latest when its timeout elapses
FairSpec == Spec /\ WF_vars(TimeoutElapses)

-----------------------------------------------------------------------------
(* The aggregators, the fallback rules and the report assembly on their own *)

MaxDistinct == 11

MaxClock == 1

WideLabels == <<"L01", "L02", "L03", "L04", "L05", "L06", "L07", "L08", "L09",
                "L10", "L11", "L12", "L13">>

Repeat(l, n) == [i \in 1..n |-> l]

RECURSIVE WideFrom(_, _)
\* the labels i..n of WideLabels, label i occurring n - i + 1 times
WideFrom(i, n) ==
    IF i > n THEN <<>>
    ELSE Repeat(WideLabels[i], n - i + 1) \o WideFrom(i + 1, n)

\* n distinct labels with n distinct counts
Wide(n) == WideFrom(1, n)

\* 18 records of one label and 10 of another
ScenarioA == Repeat("BRIDGING", 18) \o Repeat("COLD_JOINT", 10)

PureRecords ==
    SeqsUpTo(Labels, MaxRecords) \cup {Wide(n) : n \in 1..MaxDistinct}
        \cup {ScenarioA}

PureVolumes == Volumes \cup {-1}

\* production_data.get('NrBoards', default)
NrBoards(kn, boards, default) == IF kn THEN boards ELSE default

RawDataTopN == 10

\* AIScrapAnalysisApp._generate_executive_summary_text: the status, the
\* figures and the first three root causes and recommendations
generate_executive_summary_text(total_boards, scrap_rate, total_scraps, ai_insights) ==
    [status |-> IF scrap_rate < 100 THEN "EXCELLENT"
                ELSE IF scrap_rate < 300 THEN "GOOD"
                ELSE "REQUIRES ATTENTION",
     total_boards |-> total_boards,
     total_scraps |-> total_scraps,
     scrap_rate |-> scrap_rate,
     root_causes |-> Take(ai_insights.d["root_causes"].items, 3),
     recommendations |-> Take(ai_insights.d["recommendations"].items, 3)]

\* the dict returned by _prepare_comprehensive_report_data, now being
\* datetime.now()
report_data(period, analysis, top_defects, ai_insights, now) ==
    [analysis_type |-> "AI Scrap Analysis",
     period |-> period,
     executive_summary |->
         generate_executive_summary_text(analysis.boards, analysis.rate,
                                         analysis.total, ai_insights),
     scrap_data |-> [total_scraps |-> analysis.total,
                     scrap_rate |-> analysis.rate,
                     total_boards |-> analysis.boards],
     top_defects |-> top_defects,
     ai_insights |-> ai_insights,
     analysis |-> analysis,
     ai_quality_metric |-> ai_insights.d["analysis_type"] = VStr("ai"),
     raw_data |-> Take(top_defects, RawDataTopN),
     generation_date |-> now]

\* variant: the period ends at the time of the assembly
prepare_comprehensive_report_data_dated(analysis, top_defects, ai_insights, now) ==
    report_data(<<"start_date", now>>, analysis, top_defects, ai_insights, now)

\* AIScrapAnalysisApp._prepare_comprehensive_report_data
prepare_comprehensive_report_data(analysis, top_defects, ai_insights, now) ==
    report_data(<<"start_date", "end_date">>, analysis, top_defects,
                ai_insights, now)

\* the insights handed to the assembly
AssembleInsights == {ScrapStub, PyDict(json_loads(BareFull).d)}

\* the totals handed to the fallback rules with a distribution
FallbackTotals(R) ==
    {0, Len(R), FallbackTrainingThreshold, FallbackTrainingThreshold + 1}

PureInit ==
    /\ available = FALSE
    /\ config = Constructed
    /\ prompt = <<>>
    /\ connected = TRUE
    /\ calls = 1
    /\ pc = "pure"
    /\ domain = ""
    /\ records \in PureRecords
    /\ volume \in PureVolumes
    /\ known \in BOOLEAN
    /\ ext = "ok"
    /\ statistics = NoStatistics
    /\ requests = 0
    /\ reply = NoReply
    /\ logged = ""
    /\ callret = PyNone
    /\ insight = PyNone
    /\ report = NoReport
    /\ result = NoResult
    /\ clock = 0
    /\ assembled = <<>>

\* one of the three aggregators applied to the records and production data
Aggregate(dom) ==
    /\ pc = "pure"
    /\ pc' = "aggregated"
    /\ domain' = dom
    /\ CASE dom = "scrap" ->
              statistics' = [calculate_statistics(NrBoards(known, volume, 0),
                                                  records)
                                EXCEPT !.ranking = calculate_top_defects(records),
                                       !.table = calculate_top_defects(records)]
         [] dom = "fail" ->
              statistics' = calculate_fail_statistics(
                                records, NrBoards(known, volume, 1))
         [] OTHER ->
              \E problem_freq \in value_counts(records) :
                  statistics' = calculate_breakdown_statistics(
                                    records, NrBoards(known, volume, 0),
                                    problem_freq)
    /\ UNCHANGED <<available, records, volume, ext, known, requests, reply,
                   logged, callret, insight, report, result, clock, assembled,
                   config, prompt, connected, calls>>

\* the prompt of the analysis of dom is built from the statistics
CreatePrompt ==
    /\ pc = "aggregated"
    /\ pc' = "prompted"
    /\ LET p == CASE domain = "scrap" ->
                      create_scrap_analysis_prompt(statistics.ranking)
                  [] domain = "fail" ->
                      create_fail_analysis_prompt(statistics)
                  [] OTHER -> create_stoppage_analysis_prompt(statistics)
       IN /\ prompt' = p.entries
          /\ logged' = p.raises
    /\ UNCHANGED <<available, domain, records, volume, ext, known, statistics,
                   requests, reply, callret, insight, report, result, clock,
                   assembled, config, connected, calls>>

\* the parameters of AIAnalyzer.__init__
AIAnalyzerParameters == {"base_url", "model"}

\* the keyword arguments AIScrapAnalysisApp.__init__ passes to AIAnalyzer
AIAnalyzerArguments == {"api_key", "provider"}

\* what the configuration and the database do during construction
ConstructionBehaviours == {"ok", "config_fails", "db_fails"}

\* AIScrapAnalysisApp.__init__: every exception is logged and raised again;
\* a call with a keyword that is no parameter raises TypeError
app_init(e) ==
    IF e = "config_fails" THEN Returned(FALSE, "raise", "config")
    ELSE IF e = "db_fails" THEN Returned(FALSE, "raise", "db")
    ELSE IF ~(AIAnalyzerArguments \subseteq AIAnalyzerParameters)
    THEN Returned(FALSE, "raise", "TypeError")
    ELSE Returned(TRUE, "constructed", "")

\* AIScrapAnalysisApp() is constructed
ConstructApp(e) ==
    /\ pc = "pure"
    /\ pc' = "constructed"
    /\ domain' = "scrap"
    /\ ext' = e
    /\ result' = app_init(e)
    /\ UNCHANGED <<available, records, volume, known, statistics, requests,
                   reply, logged, callret, insight, report, clock, assembled,
                   config, prompt, connected, calls>>

\* _generate_fallback_recommendations applied to analysis_results
DeriveFallback(total) ==
    /\ pc = "pure"
    /\ pc' = "derived"
    /\ domain' = "wave"
    /\ statistics' = [analysis_results(records) EXCEPT !.total = total]
    /\ insight' = generate_fallback_recommendations(total, CountItems(records))
    /\ UNCHANGED <<available, records, volume, ext, known, requests, reply,
                   logged, callret, report, result, clock, assembled, config,
                   prompt, connected, calls>>

\* _prepare_comprehensive_report_data called, at most twice, with the same
\* inputs
Assemble(ins) ==
    /\ pc \in {"pure", "assembling"}
    /\ Len(assembled) < 2
    /\ assembled # <<>> => ins = insight
    /\ pc' = "assembling"
    /\ domain' = "scrap"
    /\ insight' = ins
    /\ assembled' =
           Append(assembled,
                  prepare_comprehensive_report_data(
                      calculate_statistics(NrBoards(known, volume, 0), records),
                      calculate_top_defects(records), ins, clock))
    /\ UNCHANGED <<available, records, volume, ext, known, statistics, requests,
                   reply, logged, callret, report, result, clock, config,
                   prompt, connected, calls>>

\* a second passes
Tick ==
    /\ pc \in {"pure", "assembling"}
    /\ clock < MaxClock
    /\ clock' = clock + 1
    /\ UNCHANGED <<available, pc, domain, records, volume, ext, known,
                   statistics, requests, reply, logged, callret, insight,
                   report, result, assembled, config, prompt, connected,
                   calls>>

PureNext ==
    \/ \E dom \in AIDomains : Aggregate(dom)
    \/ CreatePrompt
    \/ \E e \in ConstructionBehaviours : ConstructApp(e)
    \/ \E total \in FallbackTotals(records) : DeriveFallback(total)
    \/ \E ins \in AssembleInsights : Assemble(ins)
    \/ Tick

PureSpec == PureInit /\ [][PureNext]_vars

-----------------------------------------------------------------------------
(* Vocabulary of the properties *)

\* a run of an analysis that has an Insight Client has returned
ClientRunDone == pc = "done" /\ domain \in AIDomains \cup {"wave"}

\* the request was sent and did not bring back a generated text
TransportFailed(r) ==
    \/ r.kind \in {"conn_error", "timeout"}
    \/ r.kind = "http" /\ (r.status # 200 \/ r.body = "malformed")

\* no span of the text is a JSON value
Unparseable(text) ==
    \A i \in 1..(Len(text) + 1) : \A j \in 0..Len(text) :
        json_loads(SubSeq(text, i, j)).kind = "fail"

\* the failures of a generation request: unreachable, timeout, bad status,
\* unparseable response
RequestFailed ==
    /\ requests > 0
    /\ \/ TransportFailed(reply)
       \/ reply.body = "json" /\ Unparseable(reply.text)

StubOf(dom) ==
    CASE dom = "scrap" -> ScrapStub
      [] dom = "fail" -> FailStub
      [] OTHER -> BreakdownStub

\* the output of the Fallback Engine for the run's records
FallbackOutput ==
    generate_fallback_recommendations(statistics.total, statistics.ranking)

\* what the run's client substitutes for an Insight it could not obtain
Substitute == IF domain = "wave" THEN FallbackOutput ELSE StubOf(domain)

\* the keys the domain schema requires of the response object
SchemaRequired(dom) ==
    IF dom = "wave" THEN required_keys
    ELSE {"executive_summary", "root_causes", "recommendations"}

\* the object the response text is, read as bare JSON
BareObject == json_loads(reply.text)

\* optional prose and code-block markers around exactly one JSON object
IsWrappedObject(text) ==
    LET s == Find(text, "lb")
        e == RFind(text, "rb")
    IN /\ s # 0 /\ e > s
       /\ json_loads(SubSeq(text, s, e)).kind = "dict"
       /\ KeysOf(json_loads(SubSeq(text, s, e)).d) # {}
       /\ \A i \in (1..(s - 1)) \cup ((e + 1)..Len(text)) :
              text[i] \in WS \cup {"txt", "fence"}

WrappedObject(text) ==
    json_loads(SubSeq(text, Find(text, "lb"), RFind(text, "rb"))).d

\* the object holds null where OllamaAIAnalyzer takes the length of a list
NullLoggedList(d) ==
    \E k \in {"priority_actions", "root_causes"} : d[k].t = "null"

\* the Insight Client accepted the response as the Insight
SuccessPath ==
    /\ ClientRunDone /\ requests > 0
    /\ IF domain = "wave"
       THEN insight.kind = "dict" /\ insight.d["metadata"] = AiMetadata
       ELSE callret.kind = "dict" /\ Truthy(callret)

-----------------------------------------------------------------------------
(* C1 *)

\* C1 as stated: whenever the generation request of a run with non-empty
\* input fails, the Insight of the run is the rule-based output of the
\* Fallback Engine.
C1_FallbackEngineSubstituted ==
    (ClientRunDone /\ records # <<>> /\ RequestFailed)
        => insight = FallbackOutput

\* C1 amended: whenever the generation request of a run with non-empty input
\* fails, the client substitutes an Insight and the run continues:
\* OllamaAIAnalyzer substitutes the Fallback Engine's rule-based output,
\* AIAnalyzer a fixed stub with empty root_causes and recommendations; the
\* failure reaches the analysis neither as an exception nor as an error result.
C1_FailureSubstitutedLocally ==
    (ClientRunDone /\ records # <<>> /\ RequestFailed)
        => /\ insight = Substitute
           /\ insight.kind = "dict"
           /\ domain \in AIDomains =>
                  /\ report.present /\ report.insight = StubOf(domain)
                  /\ result.error \in {"", "render"}
           /\ domain = "wave" => result.success

C1_Witness ==
    /\ pc = "done" /\ domain = "scrap" /\ records # <<>>
    /\ reply = ConnError
    /\ insight = ScrapStub /\ insight # FallbackOutput
    /\ report.present /\ result.success

-----------------------------------------------------------------------------
(* C2 *)

\* C2: every run over a non-empty input set that the event feed delivers ends
\* with a completed report model (statistics plus insight), whichever path
\* the narrative came from.
C2_ReportCompleted ==
    (pc = "done" /\ domain \in AIDomains /\ records # <<>>
        /\ ext # "fetch_fails")
        => report.present

-----------------------------------------------------------------------------
(* C3 *)

\* C3: when the event feed returns zero records the run returns the "no
\* report" signal, without an AI request, without a report model and without
\* an error.
C3_EmptyFeedNoReport ==
    (pc = "done" /\ domain \in AIDomains \cup {"report"} /\ records = <<>>
        /\ ext # "fetch_fails")
        => /\ requests = 0
           /\ ~result.success /\ result.outcome = "no_data"
           /\ result.error = ""

-----------------------------------------------------------------------------
(* C4 *)

\* C4: the Insight Client never raises to its caller, whatever the
\* statistics (an empty ranking included) and whatever the endpoint does.
C4_ClientNeverRaises == pc = "done" => insight.kind # "raise"

-----------------------------------------------------------------------------
(* C5 *)

ReasonCode(r) ==
    CASE r.kind = "conn_error" -> "NETWORK"
      [] r.kind = "timeout" -> "TIMEOUT"
      [] r.kind = "http" /\ r.status = 200 /\ r.body = "json" -> "MALFORMED_JSON"
      [] OTHER -> "UNKNOWN"

\* C5 as stated: every failed request yields a failure tagged with the reason
\* code of its condition, so the caller can tell the conditions apart.
C5_FailureTagged ==
    (ClientRunDone /\ RequestFailed)
        => callret.kind = "failure" /\ callret.exc = ReasonCode(reply)

\* C5 amended: every failed request yields the same untagged value whatever
\* the condition: _call_ai and _call_ollama return None for every transport
\* failure (and _call_ai for text that is not JSON), and the caller of the
\* client receives the same substitute Insight for all of them; the condition
\* is told apart only in the message that is logged.
C5_FailureUntagged ==
    (ClientRunDone /\ RequestFailed)
        => /\ TransportFailed(reply) => callret = PyNone /\ logged # ""
           /\ domain \in AIDomains => callret = PyNone /\ logged # ""
           /\ callret.exc = ""
           /\ insight = Substitute

C5_Witness ==
    /\ pc = "done" /\ domain = "fail" /\ requests = 1
    /\ reply = Generated(Prose)
    /\ callret = PyNone /\ logged = "json_decode"
    /\ insight = FailStub

-----------------------------------------------------------------------------
(* C6 *)

\* C6: a parsed response that lacks a key the domain schema requires is a
\* failure: the substitute Insight is used, the response is never returned
\* as the Insight.
C6_MissingRequiredKeyFails ==
    (ClientRunDone /\ requests > 0 /\ reply.body = "json"
        /\ BareObject.kind = "dict"
        /\ \E k \in SchemaRequired(domain) : ~HasKey(BareObject.d, k))
        => insight = Substitute

\* C6 amended: a parsed response that lacks required keys is accepted, not
\* failed: OllamaAIAnalyzer keeps the members it has, fills each missing
\* required key with an empty list and returns it as AI output (it falls
\* back only when priority_actions or root_causes is null); AIAnalyzer
\* returns the object unchanged, and only an object with no member at all is
\* replaced by the stub.
C6_MissingRequiredKeyAccepted ==
    (ClientRunDone /\ requests > 0 /\ reply.body = "json"
        /\ BareObject.kind = "dict"
        /\ \E k \in SchemaRequired(domain) : ~HasKey(BareObject.d, k))
        => IF domain = "wave" /\ NullLoggedList(BareObject.d)
           THEN insight = FallbackOutput
           ELSE IF domain = "wave"
           THEN /\ insight.d["metadata"] = AiMetadata
                /\ \A k \in KeysOf(BareObject.d) \ {"metadata"} :
                       insight.d[k] = BareObject.d[k]
                /\ \A k \in required_keys \ KeysOf(BareObject.d) :
                       insight.d[k] = VList(<<>>)
           ELSE insight = IF KeysOf(BareObject.d) = {} THEN StubOf(domain)
                          ELSE PyDict(BareObject.d)

C6_Witness ==
    /\ pc = "done" /\ domain = "fail" /\ requests = 1
    /\ reply = Generated(BarePartial)
    /\ insight = PyDict(BareObject.d)
    /\ ~HasKey(insight.d, "root_causes")
    /\ insight # FailStub
    /\ result.success

-----------------------------------------------------------------------------
(* C7 *)

\* C7: a response text made of optional prose, optional code-block markers
\* and exactly one JSON object is parsed into the Insight that object
\* describes; no substitute is used.
C7_WrappedObjectParsed ==
    (ClientRunDone /\ requests > 0 /\ reply.body = "json"
        /\ IsWrappedObject(reply.text))
        => /\ insight.kind = "dict"
           /\ \A k \in KeysOf(WrappedObject(reply.text)) :
                  insight.d[k] = WrappedObject(reply.text)[k]

-----------------------------------------------------------------------------
(* C8 *)

ListKeys == {"root_causes", "recommendations"}

\* C8 as stated: an Insight returned on the success path has every list
\* field present and the kaizen field present (an object or an explicit
\* null), whatever the model omitted.
C8_SuccessFieldsPresent ==
    SuccessPath
        => /\ \A k \in ListKeys : insight.d[k].t = "list"
           /\ insight.d["kaizen_project_proposal"].t \in {"null", "obj"}

\* C8 amended: on the success path OllamaAIAnalyzer returns its six required
\* list keys always present (an empty list for each one the model omitted)
\* and adds no kaizen field; AIAnalyzer returns the parsed object unchanged,
\* so a key the model omitted stays absent. In both clients an omitted key
\* never turns a non-empty parsed object into a failure (OllamaAIAnalyzer
\* fails it only for a null priority_actions or root_causes).
C8_SuccessKeysAsParsed ==
    /\ SuccessPath =>
          IF domain = "wave"
          THEN /\ \A k \in required_keys : HasKey(insight.d, k)
               /\ \A k \in required_keys :
                      ~HasKey(ParseResponse(reply.text).d, k)
                          => insight.d[k] = VList(<<>>)
               /\ insight.d["kaizen_project_proposal"]
                      = ParseResponse(reply.text).d["kaizen_project_proposal"]
          ELSE /\ insight = callret
               /\ insight.d = BareObject.d
    /\ (ClientRunDone /\ requests > 0 /\ reply.body = "json"
          /\ BareObject.kind = "dict" /\ KeysOf(BareObject.d) # {}
          /\ ~(domain = "wave" /\ NullLoggedList(BareObject.d)))
          => SuccessPath

C8_Witness ==
    /\ pc = "done" /\ domain = "wave" /\ requests = 1
    /\ reply = Generated(BarePartial)
    /\ insight.d["metadata"] = AiMetadata
    /\ \E k \in required_keys :
           /\ ~HasKey(BareObject.d, k)
           /\ insight.d[k] = VList(<<>>)
    /\ ~HasKey(insight.d, "kaizen_project_proposal")

-----------------------------------------------------------------------------
(* C9 *)

\* the run got as far as the call of the client: the fetch succeeded and the
\* aggregation did not end the run (FailAnalyzer goes on after a failed
\* aggregation, the other two do not)
C9_ReachedClient ==
    /\ ext # "fetch_fails"
    /\ ext = "bad_record" => domain = "fail"

\* C9 as stated: every run with non-empty input issues exactly one
\* generation request.
C9_ExactlyOneRequest ==
    (ClientRunDone /\ records # <<>> /\ C9_ReachedClient)
        => requests = 1

\* C9 amended: a run never issues more than one generation request and never
\* retries; with non-empty input that reached the client it issues exactly
\* one, except an OllamaAIAnalyzer whose availability probe failed, which
\* issues none and answers from the rules.
C9_AtMostOneRequest ==
    /\ requests <= 1
    /\ (ClientRunDone /\ records # <<>> /\ C9_ReachedClient)
          => requests = IF domain = "wave" /\ ~available THEN 0 ELSE 1
    /\ pc = "waiting" => requests = 1

C9_Witness ==
    /\ pc = "done" /\ domain = "wave" /\ ~available
    /\ records # <<>> /\ requests = 0
    /\ insight = FallbackOutput

-----------------------------------------------------------------------------
(* C10 *)

\* C10: every call of the Insight Client that has sent its request
\* eventually returns, because the request carries a timeout after which
\* requests.post raises; no call blocks forever.
C10_CallReturns == (pc = "waiting") ~> (pc = "done")

C10_Witness ==
    /\ pc = "done" /\ requests = 1
    /\ reply = TimedOut
    /\ callret = PyNone
    /\ insight = Substitute

-----------------------------------------------------------------------------
(* C11 *)

\* the source tag an Insight carries: the 'source' entry of its metadata, ""
\* when it has none
Provenance(ins) ==
    IF ins.kind = "dict" /\ ins.d["metadata"].t = "obj"
    THEN ins.d["metadata"].s ELSE ""

\* the Insight a finished run hands on: the one in the report of the
\* AIAnalyzer analyses, the returned recommendations of OllamaAIAnalyzer
DeliveredInsight == IF domain = "wave" THEN insight ELSE report.insight

InsightDelivered ==
    /\ pc = "done"
    /\ \/ domain = "wave"
       \/ domain \in AIDomains /\ report.present /\ requests > 0

\* C11 as stated: every Insight placed in a report carries a provenance tag,
\* "ai" when the AI response was accepted and "fallback" when it was not, and
\* the tag is "fallback" if and only if the AI call failed.
C11_ProvenanceTagged ==
    InsightDelivered
        => Provenance(DeliveredInsight) =
               IF SuccessPath THEN "ai" ELSE "fallback"

-----------------------------------------------------------------------------
(* C12 *)

\* no connection to the endpoint: the probe of OllamaAIAnalyzer failed at
\* construction, or the generation request raised ConnectionError
Unreachable ==
    \/ domain = "wave" /\ ~available
    \/ requests > 0 /\ reply = ConnError

\* the most frequent label of the run's records
TopLabel == MostCommon(CountItems(records))

KeywordLabels == {"BRIDGING", "THERMAL_DAMAGE"}

UnreachableKeywordRun ==
    /\ ClientRunDone /\ Unreachable
    /\ records # <<>> /\ TopLabel \in KeywordLabels

\* C12 as stated: when the endpoint is unreachable and the top label matches
\* a known keyword, the Insight of the run has source "fallback" and a
\* non-empty root_causes list.
C12_UnreachableSourceFallback ==
    UnreachableKeywordRun
        => /\ Provenance(insight) = "fallback"
           /\ insight.d["root_causes"].items # <<>>

\* C12 amended: when the endpoint is unreachable and the top label matches a
\* known keyword, OllamaAIAnalyzer returns the rule-based recommendations,
\* whose metadata has source "rule_based_fallback" and whose root_causes list
\* is non-empty; the AIAnalyzer analyses (scrap, fail, breakdown) carry the
\* fixed stub, with an empty root_causes list and no source tag.
C12_UnreachableRuleBased ==
    UnreachableKeywordRun
        => IF domain = "wave"
           THEN /\ insight.d["metadata"] = FallbackMetadata
                /\ Provenance(insight) = "rule_based_fallback"
                /\ insight.d["root_causes"].t = "list"
                /\ insight.d["root_causes"].items # <<>>
           ELSE /\ insight = StubOf(domain)
                /\ insight.d["root_causes"].items = <<>>
                /\ Provenance(insight) = ""

C12_Witness ==
    /\ pc = "done" /\ domain = "wave" /\ ~available
    /\ TopLabel = "BRIDGING"
    /\ "conveyor_speed" \in {insight.d["root_causes"].items[i] :
                                i \in 1..Len(insight.d["root_causes"].items)}
    /\ Provenance(insight) = "rule_based_fallback"

-----------------------------------------------------------------------------
(* C13 *)

FallbackListKeys == {"priority_actions", "root_causes", "process_improvements",
                     "preventive_measures", "training_needs",
                     "equipment_checks", "technical_insights"}

\* C13: for any distribution, the empty one and a zero total included, the
\* Fallback Engine returns a dict (it does not raise and does not return None)
\* in which each of the seven list fields is present as a list.
C13_FallbackTotal ==
    pc = "derived"
        => /\ insight.kind = "dict"
           /\ \A k \in FallbackListKeys : insight.d[k].t = "list"

C13_Witness ==
    /\ pc = "derived" /\ records = <<>> /\ statistics.total = 0
    /\ insight.kind = "dict"
    /\ insight.d["root_causes"] = VList(<<>>)
    /\ insight.d["preventive_measures"].items # <<>>

-----------------------------------------------------------------------------
(* C14 *)

SeqSet(sq) == {sq[i] : i \in 1..Len(sq)}

FirstPos(R, l) == CHOOSE i \in 1..Len(R) : R[i] = l /\ \A j \in 1..(i - 1) : R[j] # l

\* l has the greatest count of the records and, of the labels with that
\* count, occurs first
Leading(l) ==
    /\ l \in SeqSet(records)
    /\ \A l2 \in SeqSet(records) \ {l} :
          \/ CountOf(records, l) > CountOf(records, l2)
          \/ /\ CountOf(records, l) = CountOf(records, l2)
             /\ FirstPos(records, l) < FirstPos(records, l2)

\* the canned root causes and priority actions of the keyword table
CannedCauses(l) ==
    CASE l = "BRIDGING" -> <<"conveyor_speed">>
      [] l = "THERMAL_DAMAGE" -> <<"thermal_shock">>
      [] OTHER -> <<>>

CannedActions(l) ==
    CASE l = "BRIDGING" -> <<"high">>
      [] l = "THERMAL_DAMAGE" -> <<"high">>
      [] OTHER -> <<>>

\* C14 as stated: every label of the distribution that matches a keyword
\* contributes its canned root causes, and every root cause of the Insight is
\* the canned entry of a label of the distribution.
C14_EveryLabelContributes ==
    pc = "derived"
        => /\ \A l \in SeqSet(records) :
                  SeqSet(CannedCauses(l))
                      \subseteq SeqSet(insight.d["root_causes"].items)
           /\ \A c \in SeqSet(insight.d["root_causes"].items) :
                  \E l \in SeqSet(records) : c \in SeqSet(CannedCauses(l))

\* C14 amended: only the single most frequent label (the first one among
\* equally frequent labels) is matched against the keyword table: the root
\* causes and priority actions of the Insight are exactly its canned entries,
\* none when it matches no keyword or when the distribution is empty; every
\* other label contributes nothing, whether it matches a keyword or not.
C14_OnlyMostCommonMatched ==
    pc = "derived"
        => /\ \A l \in SeqSet(records) :
                  Leading(l) =>
                      /\ insight.d["root_causes"].items = CannedCauses(l)
                      /\ insight.d["priority_actions"].items = CannedActions(l)
           /\ records = <<>> =>
                  /\ insight.d["root_causes"].items = <<>>
                  /\ insight.d["priority_actions"].items = <<>>

C14_Witness ==
    /\ pc = "derived"
    /\ records = <<"COLD_JOINT", "COLD_JOINT", "BRIDGING">>
    /\ insight.d["root_causes"].items = <<>>
    /\ insight.d["priority_actions"].items = <<>>

-----------------------------------------------------------------------------
(* C15 *)

\* C15: every fallback Insight holds the same three preventive measures and
\* three technical insights whatever the labels are, and the training entries
\* are present if and only if the total count is greater than 50.
C15_GenericRecommendations ==
    pc = "derived"
        => /\ insight.d["preventive_measures"] =
                  VList(<<"daily_checklist", "fpy_monitoring",
                          "monthly_maintenance">>)
           /\ Len(insight.d["technical_insights"].items) = 3
           /\ insight.d["training_needs"].items # <<>>
                  <=> statistics.total > 50
           /\ Len(insight.d["training_needs"].items) \in {0, 3}

C15_Witness ==
    /\ pc = "derived" /\ statistics.total = 51
    /\ Len(insight.d["training_needs"].items) = 3
    /\ Len(insight.d["preventive_measures"].items) = 3

-----------------------------------------------------------------------------
(* C16 *)

\* C16 as stated: the rate computed by the scrap and the fail aggregator
\* is 0 whenever the production volume is unknown or not positive, and
\* count / volume x 100 otherwise (here in hundredths of a percent: 28 records
\* over a volume of 1000 give 280).
C16_RateGuarded ==
    (pc = "aggregated" /\ domain \in {"scrap", "fail"})
        => statistics.rate =
               IF ~known \/ volume <= 0 THEN 0
               ELSE (Len(records) * 10000) \div volume

-----------------------------------------------------------------------------
(* C17 *)

NonIncreasing(rk) ==
    \A i \in 1..(Len(rk) - 1) : rk[i].count >= rk[i + 1].count

RECURSIVE SumCounts(_)
SumCounts(rk) == IF rk = <<>> THEN 0 ELSE Head(rk).count + SumCounts(Tail(rk))

Distinct == Cardinality(SeqSet(records))

\* the number of entries the aggregator of a domain keeps in its ranking
KeptEntries(dom) ==
    CASE dom = "fail" -> IF Distinct < 10 THEN Distinct ELSE 10
      [] dom = "breakdown" -> IF Distinct < 5 THEN Distinct ELSE 5
      [] OTHER -> Distinct

\* C17 as stated: the frequency ranking of the Statistics is sorted
\* non-increasing by count and its counts sum to the number of records.
C17_RankingSumsToRecords ==
    pc = "aggregated"
        => /\ NonIncreasing(statistics.ranking)
           /\ SumCounts(statistics.ranking) = Len(records)

\* C17 amended: every frequency ranking is sorted non-increasing by count,
\* each of its entries holds the number of records of its label, and the total
\* of the Statistics is the number of records. The scrap ranking keeps every
\* label, so its counts sum to the number of records; the fail ranking keeps
\* the first 10 entries and the breakdown ranking the first 5, so their counts
\* sum to the number of records only when there are no more distinct labels
\* than that, and to less otherwise.
C17_RankingSortedAndTruncated ==
    pc = "aggregated"
        => /\ NonIncreasing(statistics.ranking)
           /\ statistics.total = Len(records)
           /\ Len(statistics.ranking) = KeptEntries(domain)
           /\ \A i \in 1..Len(statistics.ranking) :
                  /\ statistics.ranking[i].count =
                         CountOf(records, statistics.ranking[i].label)
                  /\ statistics.ranking[i].count > 0
                  /\ \A j \in 1..(i - 1) :
                         statistics.ranking[j].label # statistics.ranking[i].label
           /\ IF Distinct = KeptEntries(domain)
              THEN SumCounts(statistics.ranking) = Len(records)
              ELSE SumCounts(statistics.ranking) < Len(records)

C17_Witness ==
    /\ pc = "aggregated" /\ domain = "fail"
    /\ Distinct = 11 /\ Len(statistics.ranking) = 10
    /\ SumCounts(statistics.ranking) < Len(records)

-----------------------------------------------------------------------------
(* C18 *)

\* C18: for any production data, the unknown volume included, aggregating an
\* empty record list gives Statistics with total 0, rate 0 and an empty
\* ranking.
C18_EmptyRecordsEmptyStatistics ==
    (pc = "aggregated" /\ records = <<>>)
        => /\ statistics.total = 0
           /\ statistics.rate = 0
           /\ statistics.ranking = <<>>

C18_Witness ==
    /\ pc = "aggregated" /\ records = <<>> /\ domain = "scrap"
    /\ ~known /\ statistics.ranking = <<>> /\ statistics.rate = 0

-----------------------------------------------------------------------------
(* C19 *)

\* entries with equal counts stand in the order of the first occurrence of
\* their labels in the records
StableTies(rk) ==
    \A i \in 1..Len(rk) : \A j \in (i + 1)..Len(rk) :
        rk[i].count = rk[j].count
            => FirstPos(records, rk[i].label) < FirstPos(records, rk[j].label)

-----------------------------------------------------------------------------
(* C20 *)

\* C20 as stated: two assemblies with identical inputs give report data that
\* are equal field for field.
C20_AssemblyIdempotent ==
    Len(assembled) = 2 => assembled[1] = assembled[2]

\* C20 amended: two assemblies with identical inputs give report data that
\* are equal in every field except generation_date, which holds the time of
\* the assembly to the second.
C20_AssemblyEqualButDate ==
    Len(assembled) = 2
        => /\ [assembled[1] EXCEPT !.generation_date = 0] =
                  [assembled[2] EXCEPT !.generation_date = 0]
           /\ assembled[1].generation_date <= assembled[2].generation_date
           /\ assembled[2].generation_date <= clock

C20_Witness ==
    /\ Len(assembled) = 2
    /\ assembled[1].generation_date # assembled[2].generation_date
    /\ assembled[1].top_defects = assembled[2].top_defects
    /\ assembled[1].ai_insights = assembled[2].ai_insights

-----------------------------------------------------------------------------
(* C21 *)

\* C21 as stated: every report model of a successful analysis has a list,
\* possibly empty, for root_causes and for recommendations of its Insight,
\* whatever the AI or the substitution produced, and no run fails on an
\* absent or null list.
C21_ReportListsPresent ==
    /\ (report.present /\ result.success /\ domain \in AIDomains)
           => /\ report.insight.kind = "dict"
              /\ \A k \in ListKeys : report.insight.d[k].t = "list"
    /\ (pc = "done" /\ domain = "scrap" /\ callret.kind = "dict")
           => result.error # "TypeError"

-----------------------------------------------------------------------------
(* C22 *)

Priorities == {"High", "Medium", "Low"}

\* the lists of an Insight whose entries carry a priority (an entry is
\* written as its priority)
PriorityLists == {"recommendations", "priority_actions"}

\* C22 as stated: every recommendation of the Insight of a finished run, from
\* the AI path or the fallback path, has a priority that is exactly one of
\* High, Medium, Low.
C22_PriorityInVocabulary ==
    (ClientRunDone /\ insight.kind = "dict")
        => \A k \in PriorityLists :
               SeqSet(insight.d[k].items) \subseteq Priorities

-----------------------------------------------------------------------------
(* C23 *)

\* a run whose aggregation raised on a malformed record has returned
AggregationFailed == pc = "done" /\ ext = "bad_record"

\* C23 as stated: an error raised while aggregating surfaces to the caller
\* as an error; no report with substitute statistics and no normally-shaped
\* result comes back.
C23_AggregationErrorSurfaces ==
    AggregationFailed
        => /\ ~result.success
           /\ result.outcome \in {"error", "raise"}
           /\ ~report.present

\* C23 amended: an aggregation error ends run_analysis with a failure result
\* that carries the error and ends analyze_breakdowns with the exception,
\* both before any request; FailAnalyzer swallows it, substitutes the basic
\* statistics (record count, ten boards per record, rate 0, no ranking),
\* sends its request and returns a successful report.
C23_SurfacesExceptFailAnalyzer ==
    AggregationFailed
        => CASE domain = "scrap" ->
                   /\ result = Returned(FALSE, "error", "KeyError")
                   /\ ~report.present /\ requests = 0
             [] domain = "breakdown" ->
                   /\ result = Returned(FALSE, "raise", "KeyError")
                   /\ insight.kind = "raise"
                   /\ ~report.present /\ requests = 0
             [] domain = "fail" ->
                   /\ result = Returned(TRUE, "report", "")
                   /\ report.present /\ requests = 1
                   /\ report.statistics.total = Len(records)
                   /\ report.statistics.boards = 10 * Len(records)
                   /\ report.statistics.rate = 0
                   /\ report.statistics.ranking = <<>>
             [] OTHER -> FALSE

C23_Witness ==
    /\ AggregationFailed /\ domain = "fail"
    /\ result.success /\ report.present
    /\ report.statistics.total = 2 /\ report.statistics.boards = 20
    /\ report.statistics.ranking = <<>>
-----------------------------------------------------------------------------
(* C24 *)

\* C24: no step of any run changes the configuration of the clients set at
\* construction (endpoint URL, model identifier, timeout) or the
\* availability flag.
C24_InstanceStateUnchanged ==
    [][config' = config /\ available' = available]_vars

\* a second call on the same instances has sent its request and the request
\* timed out, and the instances are as constructed
C24_Witness ==
    /\ pc = "done" /\ calls = 2 /\ requests = 1
    /\ reply.kind = "timeout"
    /\ config = Constructed
-----------------------------------------------------------------------------
(* C25 *)

\* the labels of the entries of a ranking or table
LabelsIn(entries) == {entries[i].label : i \in 1..Len(entries)}

\* C25: the prompt embeds at most five entries, which are the first entries
\* of the ranking in its order, while the table of the statistics has every
\* label of the records with its count.
C25_PromptTopFiveOfFullTable ==
    pc = "prompted"
        => /\ Len(prompt) <= 5
           /\ Len(prompt) <= Len(statistics.ranking)
           /\ \A i \in 1..Len(prompt) : prompt[i] = statistics.ranking[i]
           /\ \A i \in 1..(Len(prompt) - 1) :
                  prompt[i].count >= prompt[i + 1].count
           /\ LabelsIn(statistics.table) = SeqSet(records)
           /\ \A i \in 1..Len(statistics.table) :
                  statistics.table[i].count
                      = Cardinality({j \in 1..Len(records) :
                                        records[j] = statistics.table[i].label})

\* more labels than the prompt takes and than the ranking of the statistics
\* takes: the prompt has five, the table all eleven
C25_Witness ==
    /\ pc = "prompted" /\ domain = "fail"
    /\ Len(prompt) = 5
    /\ Len(statistics.ranking) = 10
    /\ Len(statistics.table) = 11
-----------------------------------------------------------------------------
(* C26 *)

\* the probes that fail: server unreachable, status other than 200, model
\* not listed, any other exception
FailedProbes == {"model_missing", "bad_status", "conn_error", "other_error"}

\* the instance is in the state a failed probe left it in
ProbeFailed == \E p \in FailedProbes : available = initialize_client(p)

\* C26: on an OllamaAIAnalyzer whose probe failed, no call of
\* generate_enhanced_recommendations, the first or a later one, sends a
\* request, and each returns the rule-based fallback.
C26_FailedProbeNeverRequests ==
    (ProbeFailed /\ domain = "wave")
        => /\ requests = 0
           /\ pc # "waiting"
           /\ pc = "done"
                 => /\ insight = generate_fallback_recommendations(
                                     Len(records), CountItems(records))
                    /\ callret = PyNone
                    /\ reply = NoReply

\* the second call on the instance has returned the fallback as well
C26_Witness ==
    /\ ProbeFailed /\ domain = "wave" /\ pc = "done" /\ calls = 2
    /\ records # <<>> /\ requests = 0
    /\ insight.kind = "dict"
-----------------------------------------------------------------------------
(* C27 *)

\* C27: analyze_breakdowns never raises; whatever the records, a finished
\* call has returned a result with statistics and insights.
C27_AnalyzeBreakdownsNeverRaises ==
    (pc = "done" /\ domain = "breakdown")
        => /\ result.outcome # "raise"
           /\ insight.kind # "raise"
           /\ report.present
-----------------------------------------------------------------------------
(* C28 *)

\* C28: once run_analysis has returned, with success or with failure, the
\* database connection has been closed.
C28_DisconnectedOnEveryExit ==
    (pc = "done" /\ domain = "scrap") => ~connected

\* the first run on a connected application failed and the connection is
\* closed
C28_Witness ==
    /\ pc = "done" /\ domain = "scrap" /\ calls = 1
    /\ ~result.success /\ result.outcome = "error"
    /\ ~connected
-----------------------------------------------------------------------------
(* C29 *)

\* C29: the statistics analyze_fails returns have the same keys on every
\* path, those of the normal computation, top_areas among them.
C29_SameStatisticsKeys ==
    (pc = "done" /\ domain = "fail" /\ report.present)
        => /\ "top_areas" \in report.statistics.keys
           /\ report.statistics.keys
                  = calculate_fail_statistics(<<"BRIDGING">>, 1000).keys
-----------------------------------------------------------------------------
(* C30 *)

\* C30: with a loadable configuration and a reachable database the
\* construction of AIScrapAnalysisApp completes; it fails only when the
\* configuration or the database fails.
C30_ConstructionCompletes ==
    pc = "constructed" => (result.success <=> ext = "ok")
====
